---- MODULE Spec2Model ----
(***************************************************************************)
(* A model of the summary generation service of ai-stakeholder-summaries:  *)
(* the SummaryJob state machine (summary/models.py) and the pipeline of    *)
(* SummaryGenerationService.generate_summary (summary/services.py).        *)
(*                                                                         *)
(* One job is followed.  `job` is the SummaryJob instance the caller       *)
(* holds, `row` is its row in summary_jobs; they differ whenever a save()  *)
(* raises.  Texts are modelled by their length in characters; an optional  *)
(* value is <<>> (None / null) or <<v>>.                                   *)
(***************************************************************************)
EXTENDS Integers, Sequences, FiniteSets, TLC

VARIABLES
    job,        \* the in-memory SummaryJob instance
    row,        \* the persisted summary_jobs row (its mutable columns)
    summaries,  \* generated_summaries rows, in insertion order
    sections,   \* summary_sections rows, in insertion order
    contexts,   \* document_contexts rows, in insertion order
    pc,         \* position inside generate_summary ("idle": no call active)
    frame,      \* local variables of the active generate_summary call
    now,        \* the clock (timezone.now / time.time), a logical time
    runs,       \* generate_summary calls started so far
    outcome,    \* how the last generate_summary call ended
    calls,      \* model invocations of the active call, in order
    succeeded,  \* whether some generate_summary call has returned normally
    op,         \* the operation entered from outside: its name, arguments, result
    _summary_service,  \* the module global of services.py (None until set)
    threads     \* the request threads inside get_summary_service

vars == <<job, row, summaries, sections, contexts, pc, frame, now, runs,
          outcome, calls, succeeded, op,
                   _summary_service, threads>>

---------------------------------------------------------------------------
(* Bounds of the model *)
MaxRuns == 2
SmallDocs == 2
MidDocs == 15
ManyDocs == 29
MaxTokens == 2
ShortSummary == 40
LongSummary == 3000
ShortIdLen == 4
LongText == 2600
ShortText == 20
MaxParseDocs == 3
MaxCalls == 3
MaxContexts == 3
MaxTextLen == 12
MaxWords == 4
LongWords == 5

(* Program constants *)
ChunkSize == 4000
ChunkOverlap == 200
MaxIdLen == 100
TextOverhead == 59
HeaderOverhead == 19
JoinLen == 2
CharsPerToken == 4
DefaultCut == 2500
DefaultMaxLength == 500
MinLength == 100
MaxLength == 2000
MaxDocuments == 50

None == <<>>
Some(v) == <<v>>
Val(o) == o[1]

ModelName == "gpt-4"

---------------------------------------------------------------------------
(* Exceptions: the type, str(e), and the step that raised it *)
Exc(type, msg, at) == [type |-> type, msg |-> msg, at |-> at]

DBError(at) == Exc("DatabaseError", "database error", at)

---------------------------------------------------------------------------
(* Texts.  A document id is a natural number printed in id_len characters; *)
(* a text is modelled by its length.                                       *)

\* f"[Document {doc_id} content would be fetched from ingestion service]"
ExtractedTextLen(idLen) == TextOverhead + idLen

\* f"--- Document {ctx.document_id} ---\n{ctx.extracted_text}\n"
BlockLen(idLen) == HeaderOverhead + idLen + ExtractedTextLen(idLen)

\* the blocks joined last to first
_combine_document_texts_reversed(ctxs, idLen) ==
    [docs |-> [k \in 1..Len(ctxs) |-> ctxs[Len(ctxs) + 1 - k]],
     len  |-> IF Len(ctxs) = 0 THEN 0
              ELSE Len(ctxs) * BlockLen(idLen) + (Len(ctxs) - 1) * JoinLen]

\* "\n\n".join(texts): the documents in the order of `ctxs`
_combine_document_texts(ctxs, idLen) ==
    [docs |-> ctxs,
     len  |-> IF Len(ctxs) = 0 THEN 0
              ELSE Len(ctxs) * BlockLen(idLen) + (Len(ctxs) - 1) * JoinLen]

(* RecursiveCharacterTextSplitter(chunk_size, chunk_overlap, len): the     *)
(* combined text is cut at its "\n\n" separators (kept at the head of the  *)
(* following piece); the pieces are merged greedily into chunks.           *)
PieceLen(i, n, idLen) ==
    IF n = 1 THEN BlockLen(idLen)
    ELSE IF i = 1 THEN BlockLen(idLen) - 1
    ELSE IF i = n THEN BlockLen(idLen) + JoinLen + 1
    ELSE BlockLen(idLen) + JoinLen

\* the total length of the pieces lo..hi
SumPieces(lo, hi, n, idLen) ==
    IF lo > hi THEN 0
    ELSE IF n = 1 THEN BlockLen(idLen)
    ELSE (hi - lo + 1) * (BlockLen(idLen) + JoinLen)
         - (IF lo = 1 THEN JoinLen + 1 ELSE 0)
         + (IF hi = n THEN 1 ELSE 0)

\* a chunk: the pieces lo..hi joined and stripped of surrounding whitespace
Chunk(lo, hi, n, idLen) ==
    [lo |-> lo, hi |-> hi,
     len |-> SumPieces(lo, hi, n, idLen)
             - (IF lo > 1 THEN JoinLen + 1 ELSE 0)
             - (IF hi = n THEN 1 ELSE 0)]

\* the while loop of _merge_splits: pieces leave the front of current_doc
\* while total > chunk_overlap or (total + l > chunk_size and total > 0);
\* the result is the first piece that stays and the total that is left
PopFront(s, total, l, n, idLen) ==
    LET Left(k) == total - SumPieces(s, k - 1, n, idLen)
        Stops(k) == ~(Left(k) > ChunkOverlap
                        \/ (Left(k) + l > ChunkSize /\ Left(k) > 0))
        first == CHOOSE k \in s..(n + 1) :
                    Stops(k) /\ \A j \in s..(k - 1) : ~Stops(j)
    IN  <<first, Left(first)>>

\* current_doc is the pieces s..i-1, of total length `total`
RECURSIVE _merge_splits(_, _, _, _, _, _)
_merge_splits(i, n, idLen, s, total, docs) ==
    IF i > n
    THEN IF s <= n THEN Append(docs, Chunk(s, n, n, idLen)) ELSE docs
    ELSE LET l == PieceLen(i, n, idLen) IN
         IF total + l > ChunkSize /\ s < i
         THEN \* the window after the pops and the chunk that is emitted, each
              \* computed once
              CHOOSE r \in
                  {_merge_splits(i + 1, n, idLen, p[1], p[2] + l, d) :
                      p \in {PopFront(s, total, l, n, idLen)},
                      d \in {Append(docs, Chunk(s, i - 1, n, idLen))}} : TRUE
         ELSE _merge_splits(i + 1, n, idLen, s, total + l, docs)

\* self.text_splitter.split_text(combined_text): no chunk for the empty text
split_text(n, idLen) ==
    IF n = 0 THEN <<>> ELSE _merge_splits(1, n, idLen, 1, 0, <<>>)

---------------------------------------------------------------------------
(* Model responses.  The text a model call returns is one of: text that is *)
(* not JSON, the empty string, a JSON object (with or without the two      *)
(* keys), a JSON list, a JSON number or null, a JSON string that contains  *)
(* both words.                                                             *)

Sec(t) == [title |-> Some(t)]
SecNoTitle == [title |-> None]

SectionLists == {<<>>, <<Sec("A"), Sec("B")>>, <<Sec("B"), Sec("A")>>,
                 <<Sec("A"), SecNoTitle>>}

FullSummaries == {Some(ShortSummary), Some(LongSummary), None}

Resp(kind, hasSections, hasFull, secs, full) ==
    [kind |-> kind, has_sections |-> hasSections, has_full_summary |-> hasFull,
     sections |-> secs, full_summary |-> full]

ObjectResponses ==
    {Resp("object", TRUE, TRUE, s, f) : s \in SectionLists, f \in FullSummaries}
    \cup {Resp("object", TRUE, FALSE, <<>>, None),
          Resp("object", FALSE, TRUE, <<>>, Some(ShortSummary)),
          Resp("object", FALSE, FALSE, <<>>, None)}

OtherResponses ==
    {Resp(k, FALSE, FALSE, <<>>, None) :
        k \in {"text", "empty", "list", "scalar", "string"}}

Responses == ObjectResponses \cup OtherResponses

\* the responses the parser sends to its fallback
IsFallbackInput(r) ==
    \/ r.kind \in {"text", "empty", "list"}
    \/ r.kind = "object" /\ ~(r.has_sections /\ r.has_full_summary)

\* what chain.run + the token callback give: an exception, or text and usage
InvokeMsgs == {"", "model error"}

Outcomes ==
    {[raised |-> TRUE, exc |-> Some(Exc("ModelError", m, "invoke")),
      response |-> None, tokens |-> 0] : m \in InvokeMsgs}
    \cup {[raised |-> FALSE, exc |-> None, response |-> Some(r), tokens |-> t] :
            r \in Responses, t \in 0..MaxTokens}

---------------------------------------------------------------------------
(* SummaryGenerationService: the response parser *)

\* STAKEHOLDER_PROMPTS[role]['sections']
STAKEHOLDER_PROMPTS(role) ==
    CASE role = "developer" ->
           <<"Technical Overview", "Quality Standards", "Compliance Requirements", "Key Risks">>
      [] role = "contractor" ->
           <<"Project Scope", "Timeline & Milestones", "Resource Requirements", "Change Management">>
      [] role = "architect" ->
           <<"Design Overview", "Specifications", "Code Compliance", "Design Changes">>
      [] role = "client" ->
           <<"Project Status", "Budget Summary", "Timeline", "Quality Assurance">>
      [] role = "project_manager" ->
           <<"Executive Summary", "Risk & Issues", "Resource Status", "Key Decisions">>
      [] role = "legal" ->
           <<"Contractual Overview", "Compliance Status", "Claims & Disputes", "Risk Exposure">>
      [] role = "finance" ->
           <<"Financial Summary", "Budget Variance", "Cash Flow", "Financial Risks">>
      [] OTHER ->
           <<"Executive Summary", "Strategic Overview", "Financial Health", "Critical Actions">>

Ok(data) == [ok |-> TRUE, data |-> Some(data), exc |-> None]
Raise(e) == [ok |-> FALSE, data |-> None, exc |-> Some(e)]

Data(isDict, secs, full, tokens) ==
    [is_dict |-> isDict, sections |-> secs, full_summary |-> full,
     tokens_used |-> tokens]

\* Whether the name `job` is bound inside _parse_llm_response: its parameters
\* are (self, response, stakeholder_config, document_ids) and the module
\* defines no global of that name.
JobNameBound == FALSE

Min(a, b) == IF a <= b THEN a ELSE b

\* len(response), by the kind of text the model returned
RawLen(response) ==
    CASE response.kind = "empty" -> 0
      [] response.kind = "text" -> LongText
      [] OTHER -> ShortText

\* document_ids[:2] if document_ids else []
EvidenceIds(document_ids) == SubSeq(document_ids, 1, Min(2, Len(document_ids)))

\* one fallback section (lines 368-376)
FallbackSection(section_title, document_ids) ==
    [title |-> Some(section_title),
     content |-> Some("[Content for " \o section_title \o " - parsed from response]"),
     key_points |-> <<"Key point 1 for " \o section_title,
                      "Key point 2 for " \o section_title>>,
     evidence_ids |-> EvidenceIds(document_ids)]

\* Lines 365-382: the sections are built, then the returned dict evaluates
\* hasattr(job, 'max_length'), which looks the name `job` up first.  Were the
\* name bound to an object without max_length, response[:2500] would be kept.
FallbackParse(response, role, document_ids) ==
    LET titles == STAKEHOLDER_PROMPTS(role)
        secs   == [i \in 1..Len(titles) |->
                      FallbackSection(titles[i], document_ids)]
    IN  IF JobNameBound
        THEN Ok(Data(TRUE, secs, Some(Min(RawLen(response), DefaultCut)), 0))
        ELSE Raise(Exc("NameError", "name 'job' is not defined", "parse"))

\* a parser that always emits the profile's sections
_parse_llm_response_profile(response, role, document_ids) ==
    LET titles == STAKEHOLDER_PROMPTS(role)
    IN  Ok(Data(TRUE, [i \in 1..Len(titles) |->
                          FallbackSection(titles[i], document_ids)],
                response.full_summary, 0))

\* _parse_llm_response(response, stakeholder_config, document_ids)
_parse_llm_response(response, role, document_ids) ==
    CASE response.kind \in {"text", "empty"} ->
           \* json.JSONDecodeError is caught
           FallbackParse(response, role, document_ids)
      [] response.kind = "scalar" ->
           \* 'sections' in 5, 'sections' in None
           Raise(Exc("TypeError", "argument is not iterable", "parse"))
      [] response.kind = "list" ->
           FallbackParse(response, role, document_ids)
      [] response.kind = "string" ->
           \* both words are substrings of the decoded str, which is returned
           Ok(Data(FALSE, <<>>, None, 0))
      [] OTHER ->
           IF response.has_sections /\ response.has_full_summary
           THEN Ok(Data(TRUE, response.sections, response.full_summary, 0))
           ELSE FallbackParse(response, role, document_ids)

\* a _single_document_summary that goes on after a failed invocation
_single_document_summary_lenient(j, out) ==
    IF out.raised THEN Ok(Data(TRUE, <<>>, Some(ShortSummary), 0))
    ELSE LET r == _parse_llm_response(Val(out.response), j.stakeholder_role,
                                   j.document_ids)
         IN  IF r.ok /\ Val(r.data).is_dict
             THEN Ok([Val(r.data) EXCEPT !.tokens_used = out.tokens])
             ELSE Ok(Data(TRUE, <<>>, Some(ShortSummary), 0))

\* _single_document_summary, given what the model call did (lines 273-290)
_single_document_summary(j, out) ==
    IF out.raised THEN Raise(Val(out.exc))
    ELSE LET r == _parse_llm_response(Val(out.response), j.stakeholder_role,
                                   j.document_ids)
         IN  IF ~r.ok THEN r
             ELSE IF ~Val(r.data).is_dict
             THEN Raise(Exc("TypeError",
                            "'str' object does not support item assignment",
                            "single"))
             ELSE Ok([Val(r.data) EXCEPT !.tokens_used = out.tokens])

---------------------------------------------------------------------------
(* SummaryJob (models.py) *)

TruthyInt(o) == o # None /\ Val(o) # 0
TruthyStr(o) == o # None /\ Val(o) # ""

\* SummaryJob.mark_processing, before its save
mark_processing(j) == [j EXCEPT !.status = "processing"]

\* mark_completed without its completion timestamp
mark_completed_no_stamp(j, m, t, p, at) ==
    [j EXCEPT !.status = "completed",
              !.model_used = IF TruthyStr(m) THEN m ELSE @,
              !.tokens_used = IF TruthyInt(t) THEN t ELSE @,
              !.processing_time = IF TruthyInt(p) THEN p ELSE @]

\* SummaryJob.mark_completed, before its save
mark_completed(j, m, t, p, at) ==
    [j EXCEPT !.status = "completed",
              !.completed_at = Some(at),
              !.model_used = IF TruthyStr(m) THEN m ELSE @,
              !.tokens_used = IF TruthyInt(t) THEN t ELSE @,
              !.processing_time = IF TruthyInt(p) THEN p ELSE @]

\* mark_failed without its completion timestamp
mark_failed_no_stamp(j, msg, at) ==
    [j EXCEPT !.status = "failed",
              !.error_message = Some(msg)]

\* mark_failed that records the error and leaves the status as it was
mark_failed_keeps_status(j, msg, at) ==
    [j EXCEPT !.error_message = Some(msg),
              !.completed_at = Some(at)]

\* SummaryJob.mark_failed, before its save
mark_failed(j, msg, at) ==
    [j EXCEPT !.status = "failed",
              !.error_message = Some(msg),
              !.completed_at = Some(at)]

\* self.save(): every column is written
SaveAll(r, j) ==
    [status |-> j.status, error_message |-> j.error_message,
     model_used |-> j.model_used, tokens_used |-> j.tokens_used,
     processing_time |-> j.processing_time, completed_at |-> j.completed_at]

\* self.save(update_fields=['status', 'updated_at'])
SaveStatus(r, j) == [r EXCEPT !.status = j.status]

(* GeneratedSummary: id is the primary key, job a OneToOneField *)
SummaryId(j) == "sum_" \o j.id

\* an insert that checks neither the primary key nor the one-to-one column
InsertSummaryUnchecked(tbl, r) == Ok(Append(tbl, r))

InsertSummary(tbl, r) ==
    IF \E k \in 1..Len(tbl) : tbl[k].id = r.id \/ tbl[k].job = r.job
    THEN Raise(Exc("IntegrityError", "duplicate key", "create_summary"))
    ELSE Ok(Append(tbl, r))

---------------------------------------------------------------------------
(* Initial states: a job just created, SummaryJob.objects.create(...) *)

\* <<number of documents, length of each document id>>: a few documents with
\* short ids (one chunk), many documents with ids of the greatest length the
\* column takes (several chunks)
Configs ==
    {<<n, ShortIdLen>> : n \in 0..SmallDocs}
    \cup {<<MidDocs, MaxIdLen>>, <<ManyDocs, MaxIdLen>>}

\* how many generate_summary calls are explored on a job: repeated calls on
\* the small jobs, one call on the large ones
RunLimit(j) == IF Len(j.document_ids) <= SmallDocs THEN MaxRuns ELSE 1

\* how many request threads call get_summary_service at the same time
NumThreads == 3

Threads == 1..NumThreads

\* a thread that has not called get_summary_service: `made` is the instance
\* it constructed, `got` the instance it was returned
NoThreads == [t \in Threads |-> [pc |-> "out", made |-> None, got |-> None]]

\* no operation entered from outside is recorded
NoOp == [name |-> "none", args |-> None, result |-> None]

Frame0 ==
    [i |-> 0, start_time |-> 0, fresh |-> FALSE,
     document_contexts |-> <<>>,
     combined |-> [docs |-> <<>>, len |-> 0],
     chunks |-> <<>>, chunk_summaries |-> <<>>, total_tokens |-> 0,
     response |-> None, summary_data |-> None, tokens_used |-> 0,
     exc |-> None, statuses |-> <<>>]

\* how a generate_summary call ended: kind is "none" while no call has ended,
\* "returned" or "raised"; caught is the exception the except clause caught,
\* exc the one that reached the caller; fresh tells whether the job was a
\* fresh pending job when the call began; statuses are the values job.status
\* took during the call, n_calls the number of model invocations it made,
\* sections the sections of the summary data the call persisted
NoOutcome ==
    [kind |-> "none", caught |-> None, exc |-> None, fresh |-> FALSE,
     statuses |-> <<>>, n_calls |-> 0, sections |-> <<>>]

\* SummaryJob.objects.create(...): n document ids of id_len characters each
NewJob(n, idLen) ==
    [id |-> "job", stakeholder_role |-> "finance",
     document_ids |-> [i \in 1..n |-> i], id_len |-> idLen,
     max_length |-> DefaultMaxLength,
     status |-> "pending", error_message |-> None,
     model_used |-> None, tokens_used |-> None,
     processing_time |-> None,
     created_at |-> 0, completed_at |-> None]

NewRow ==
    [status |-> "pending", error_message |-> None,
     model_used |-> None, tokens_used |-> None,
     processing_time |-> None, completed_at |-> None]

Init ==
    /\ \E c \in Configs : job = NewJob(c[1], c[2])
    /\ row = NewRow
    /\ summaries = <<>>
    /\ sections = <<>>
    /\ contexts = <<>>
    /\ pc = "idle"
    /\ frame = Frame0
    /\ now = 1
    /\ runs = 0
    /\ outcome = NoOutcome
    /\ calls = <<>>
    /\ succeeded = FALSE
    /\ _summary_service = None
    /\ threads = NoThreads
    /\ op = NoOp

Fresh ==
    /\ job.status = "pending" /\ row.status = "pending"
    /\ job.completed_at = None /\ job.error_message = None
    /\ summaries = <<>> /\ sections = <<>> /\ contexts = <<>>

\* control passes to the except clause of generate_summary with exception e
Caught(e) ==
    /\ pc' = "except"
    /\ frame' = [frame EXCEPT !.exc = Some(e)]

---------------------------------------------------------------------------
(* generate_summary, step by step *)

\* lines 103-107: start_time = time.time(); job.mark_processing()
EnterGenerateSummary ==
    /\ runs' = runs + 1
    /\ now' = now + 1
    /\ job' = mark_processing(job)
    /\ calls' = <<>>
    /\ outcome' = NoOutcome
    /\ \E saved \in BOOLEAN :
         LET f == [Frame0 EXCEPT !.start_time = now, !.fresh = Fresh,
                                 !.statuses = <<"processing">>]
         IN  IF saved
             THEN /\ row' = SaveStatus(row, job')
                  /\ pc' = "fetch"
                  /\ frame' = [f EXCEPT !.i = 1]
             ELSE /\ row' = row
                  /\ pc' = "except"
                  /\ frame' = [f EXCEPT !.exc = Some(DBError("mark_processing"))]
    /\ UNCHANGED <<summaries, sections, contexts, succeeded, op,
                   _summary_service, threads>>

\* generate_summary(job) called on the job at hand
generate_summary ==
    /\ pc = "idle"
    /\ runs < RunLimit(job)
    /\ EnterGenerateSummary

\* _fetch_document_contexts, one DocumentContext.objects.create per id
_fetch_document_contexts ==
    /\ pc = "fetch"
    /\ frame.i <= Len(job.document_ids)
    /\ \E created \in BOOLEAN :
         IF created
         THEN LET ctx == [job |-> job.id,
                          document_id |-> job.document_ids[frame.i]]
              IN  /\ contexts' = Append(contexts, ctx)
                  /\ frame' = [frame EXCEPT
                                 !.i = @ + 1,
                                 !.document_contexts = Append(@, ctx)]
                  /\ pc' = pc
         ELSE /\ Caught(DBError("fetch"))
              /\ contexts' = contexts
    /\ UNCHANGED <<job, row, summaries, sections, now, runs, outcome, calls, succeeded, op,
                   _summary_service, threads>>

\* _generate_with_langchain up to the branch on len(chunks) (lines 187-212)
_generate_with_langchain ==
    /\ pc = "fetch"
    /\ frame.i > Len(job.document_ids)
    /\ LET combined == _combine_document_texts(
                           [k \in 1..Len(frame.document_contexts) |->
                               frame.document_contexts[k].document_id],
                           job.id_len)
           chunks == split_text(Len(combined.docs), job.id_len)
       IN  /\ frame' = [frame EXCEPT !.combined = combined,
                                     !.chunks = chunks, !.i = 1]
           /\ pc' = IF Len(chunks) > 1 THEN "map" ELSE "single"
    /\ UNCHANGED <<job, row, summaries, sections, contexts, now, runs,
                   outcome, calls, succeeded, op,
                   _summary_service, threads>>

\* one model invocation: which chunk it was given (0: none), the chunk
\* summaries it was given (reduce only), the length of its content, the usage
\* the callback reported, and the full_summary of its parsed result and, for
\* a call whose result the caller keeps whole (not a map call: line 323
\* keeps the full_summary only), its sections
Call(phase, chunk, parts, len, out, r) ==
    [phase |-> phase, chunk |-> chunk, parts |-> parts, content_len |-> len,
     usage |-> IF out.raised THEN None ELSE Some(out.tokens),
     returned |-> r.ok,
     full_summary |-> IF r.ok THEN Val(r.data).full_summary ELSE None,
     sections |-> IF r.ok /\ phase # "map" THEN Val(r.data).sections ELSE <<>>]

\* the single-pass branch: _single_document_summary(content=combined_text)
SinglePass ==
    /\ pc = "single"
    /\ \E out \in Outcomes :
         LET r == _single_document_summary(job, out) IN
         /\ calls' = Append(calls, Call("single", 0, <<>>, frame.combined.len, out, r))
         /\ IF r.ok
            THEN /\ frame' = [frame EXCEPT
                                !.response = out.response,
                                !.summary_data = r.data,
                                !.tokens_used = Val(r.data).tokens_used]
                 /\ pc' = "create_summary"
            ELSE /\ frame' = [frame EXCEPT !.response = out.response,
                                           !.exc = r.exc]
                 /\ pc' = "except"
    /\ UNCHANGED <<job, row, summaries, sections, contexts, now, runs,
                   outcome, succeeded, op,
                   _summary_service, threads>>

\* _multi_document_synthesis, one iteration of the loop over chunks
MapChunk ==
    /\ pc = "map"
    /\ frame.i <= Len(frame.chunks)
    /\ \E out \in Outcomes :
         LET r == _single_document_summary(job, out) IN
         /\ calls' = Append(calls, Call("map", frame.i, <<>>,
                                      frame.chunks[frame.i].len, out, r))
         /\ IF r.ok
            THEN /\ frame' = [frame EXCEPT
                                !.response = out.response,
                                !.chunk_summaries =
                                    Append(@, Val(r.data).full_summary),
                                !.total_tokens = @ + Val(r.data).tokens_used,
                                !.i = @ + 1]
                 /\ pc' = pc
            ELSE /\ frame' = [frame EXCEPT !.response = out.response,
                                           !.exc = r.exc]
                 /\ pc' = "except"
    /\ UNCHANGED <<job, row, summaries, sections, contexts, now, runs,
                   outcome, succeeded, op,
                   _summary_service, threads>>

\* the map phase's usage dropped from the total
FinalTokensReduceOnly(total_tokens, final_tokens) == final_tokens

\* final_summary['tokens_used'] = total_tokens + final_summary.get('tokens_used', 0)
FinalTokens(total_tokens, final_tokens) == total_tokens + final_tokens

\* len("\n\n".join(chunk_summaries))
RECURSIVE SumLens(_)
SumLens(ss) == IF ss = <<>> THEN 0 ELSE Val(Head(ss)) + SumLens(Tail(ss))

JoinedLen(ss) == SumLens(ss) + (Len(ss) - 1) * JoinLen

\* a reduce input cut to the chunk window (the code does not do this)
ReduceContentCut(chunk_summaries) ==
    IF JoinedLen(chunk_summaries) > ChunkSize THEN ChunkSize
    ELSE JoinedLen(chunk_summaries)

\* the chunk summaries joined last to first
ReducePartsReversed(chunk_summaries) ==
    [k \in 1..Len(chunk_summaries) |->
        chunk_summaries[Len(chunk_summaries) + 1 - k]]

\* "\n\n".join(chunk_summaries): the summaries in the order of the list
ReduceParts(chunk_summaries) == chunk_summaries

\* content=combined_summaries: the whole concatenation goes to the reduce call
ReduceContent(chunk_summaries) == JoinedLen(chunk_summaries)

\* _multi_document_synthesis after the loop (lines 326-337)
Reduce ==
    /\ pc = "map"
    /\ frame.i > Len(frame.chunks)
    /\ IF \E k \in 1..Len(frame.chunk_summaries) : frame.chunk_summaries[k] = None
       THEN \* "\n\n".join of a list holding None
            /\ Caught(Exc("TypeError", "sequence item: expected str instance",
                          "reduce"))
            /\ calls' = calls
       ELSE \E out \in Outcomes :
              LET r == _single_document_summary(job, out)
                  content == ReduceContent(frame.chunk_summaries)
              IN
              /\ calls' = Append(calls, Call("reduce", 0,
                                        ReduceParts(frame.chunk_summaries),
                                        content, out, r))
              /\ IF r.ok
                 THEN LET final == [Val(r.data) EXCEPT
                                      !.tokens_used =
                                          FinalTokens(frame.total_tokens, @)]
                      IN  /\ frame' = [frame EXCEPT
                                         !.response = out.response,
                                         !.summary_data = Some(final),
                                         !.tokens_used = final.tokens_used]
                          /\ pc' = "create_summary"
                 ELSE /\ frame' = [frame EXCEPT !.response = out.response,
                                                !.exc = r.exc]
                      /\ pc' = "except"
    /\ UNCHANGED <<job, row, summaries, sections, contexts, now, runs,
                   outcome, succeeded, op,
                   _summary_service, threads>>

\* _create_summary_records: GeneratedSummary.objects.create (lines 399-406)
CreateSummary ==
    /\ pc = "create_summary"
    /\ LET data == Val(frame.summary_data) IN
       \E dbUp \in BOOLEAN :
         IF ~dbUp
         THEN /\ Caught(DBError("create_summary"))
              /\ summaries' = summaries
         ELSE IF data.full_summary = None
         THEN /\ Caught(Exc("IntegrityError", "null value in column full_summary",
                            "create_summary"))
              /\ summaries' = summaries
         ELSE LET r == InsertSummary(summaries,
                          [id |-> SummaryId(job), job |-> job.id,
                           full_summary |-> Val(data.full_summary)])
              IN  IF r.ok
                  THEN /\ summaries' = Val(r.data)
                       /\ frame' = [frame EXCEPT !.i = 1]
                       /\ pc' = "create_sections"
                  ELSE /\ Caught(Val(r.exc))
                       /\ summaries' = summaries
    /\ UNCHANGED <<job, row, sections, contexts, now, runs, outcome, calls, succeeded, op,
                   _summary_service, threads>>

\* a section row stored without its position
SectionRowUnordered(j, section_data, i) ==
    [summary |-> SummaryId(j), title |-> Val(section_data.title), order |-> 0]

\* SummarySection.objects.create(summary=summary, title=..., order=i, ...)
SectionRow(j, section_data, i) ==
    [summary |-> SummaryId(j), title |-> Val(section_data.title), order |-> i]

\* _create_summary_records: one SummarySection.objects.create (lines 409-417)
CreateSection ==
    /\ pc = "create_sections"
    /\ LET secs == Val(frame.summary_data).sections IN
       /\ frame.i <= Len(secs)
       /\ \E dbUp \in BOOLEAN :
            IF secs[frame.i].title = None
            THEN \* section_data['title']
                 /\ Caught(Exc("KeyError", "'title'", "create_sections"))
                 /\ sections' = sections
            ELSE IF ~dbUp
            THEN /\ Caught(DBError("create_sections"))
                 /\ sections' = sections
            ELSE /\ sections' = Append(sections,
                                  SectionRow(job, secs[frame.i], frame.i - 1))
                 /\ frame' = [frame EXCEPT !.i = @ + 1]
                 /\ pc' = pc
    /\ UNCHANGED <<job, row, summaries, contexts, now, runs, outcome, calls, succeeded, op,
                   _summary_service, threads>>

\* lines 124-137: job.mark_completed(...); return summary
CompleteJob ==
    /\ pc = "create_sections"
    /\ frame.i > Len(Val(frame.summary_data).sections)
    /\ job' = mark_completed(job, Some(ModelName), Some(frame.tokens_used),
                            Some(now - frame.start_time), now)
    /\ now' = now + 1
    /\ \E saved \in BOOLEAN :
         IF saved
         THEN /\ row' = SaveAll(row, job')
              /\ pc' = "idle"
              /\ frame' = Frame0
              /\ outcome' = [kind |-> "returned", caught |-> None,
                             exc |-> None, fresh |-> frame.fresh,
                             statuses |-> Append(frame.statuses, "completed"),
                             n_calls |-> Len(calls),
                             sections |-> Val(frame.summary_data).sections]
              /\ calls' = <<>>
              /\ succeeded' = TRUE
         ELSE /\ row' = row
              /\ pc' = "except"
              /\ frame' = [frame EXCEPT
                             !.statuses = Append(@, "completed"),
                             !.exc = Some(DBError("mark_completed"))]
              /\ UNCHANGED <<outcome, calls, succeeded>>
    /\ UNCHANGED <<summaries, sections, contexts, runs, op,
                   _summary_service, threads>>

\* lines 139-142: job.mark_failed(str(e)); raise
HandleException ==
    /\ pc = "except"
    /\ job' = mark_failed(job, Val(frame.exc).msg, now)
    /\ now' = now + 1
    /\ pc' = "idle"
    /\ frame' = Frame0
    /\ calls' = <<>>
    /\ \E saved \in BOOLEAN :
         LET o == [kind |-> "raised", caught |-> frame.exc, exc |-> frame.exc,
                   fresh |-> frame.fresh,
                   statuses |-> Append(frame.statuses, "failed"),
                   n_calls |-> Len(calls), sections |-> <<>>]
         IN  IF saved
             THEN /\ row' = SaveAll(row, job')
                  /\ outcome' = o
             ELSE \* the save inside mark_failed raises: `raise` is not reached
                  /\ row' = row
                  /\ outcome' = [o EXCEPT !.exc = Some(DBError("mark_failed"))]
    /\ UNCHANGED <<summaries, sections, contexts, runs, succeeded, op,
                   _summary_service, threads>>

---------------------------------------------------------------------------
Next ==
    \/ generate_summary
    \/ _fetch_document_contexts
    \/ _generate_with_langchain
    \/ SinglePass
    \/ MapChunk
    \/ Reduce
    \/ CreateSummary
    \/ CreateSection
    \/ CompleteJob
    \/ HandleException

Spec == Init /\ [][Next]_vars

----------------------------------------------------------------------------
(* one generate_summary call on a fresh pending job, where every model     *)
(* invocation and every store operation returns or raises: each step of    *)
(* the run that can be taken is taken in the end                           *)

\* generate_summary(job) on a job no run has touched
FirstRun ==
    /\ pc = "idle"
    /\ runs = 0
    /\ Fresh
    /\ EnterGenerateSummary

\* the steps of generate_summary after its entry
RunStep ==
    \/ _fetch_document_contexts
    \/ _generate_with_langchain
    \/ SinglePass
    \/ MapChunk
    \/ Reduce
    \/ CreateSummary
    \/ CreateSection
    \/ CompleteJob
    \/ HandleException

RunNext ==
    \/ FirstRun
    \/ RunStep

RunSpec == Init /\ [][RunNext]_vars /\ WF_vars(RunStep)

---------------------------------------------------------------------------
(* _parse_llm_response called on its own: every kind of response, every    *)
(* stakeholder profile, zero to MaxParseDocs document ids                  *)

Roles == {"developer", "contractor", "architect", "client",
          "project_manager", "legal", "finance", "executive"}

\* a section as the prompt asks the model to write it
RichSec(t, ids) ==
    [title |-> Some(t), content |-> Some("text of " \o t),
     key_points |-> <<"point of " \o t>>, evidence_ids |-> ids]

\* objects with both keys whose sections are not the profile's
RichResponses ==
    {Resp("object", TRUE, TRUE, secs, Some(ShortSummary)) :
        secs \in {<<RichSec("Zoning", <<3>>), RichSec("Budget Variance", <<>>)>>,
                  <<RichSec("Cash Flow", <<1, 2, 3>>)>>}}

ParserInputs ==
    [response : Responses \cup RichResponses,
     role : Roles,
     document_ids : {[i \in 1..n |-> i] : n \in 0..MaxParseDocs}]

ParserInit ==
    /\ job = NewJob(0, ShortIdLen)
    /\ row = NewRow
    /\ summaries = <<>>
    /\ sections = <<>>
    /\ contexts = <<>>
    /\ pc = "parse"
    /\ frame = Frame0
    /\ now = 1
    /\ runs = 0
    /\ outcome = NoOutcome
    /\ calls = <<>>
    /\ succeeded = FALSE
    /\ _summary_service = None
    /\ threads = NoThreads
    /\ \E a \in ParserInputs :
         op = [name |-> "_parse_llm_response", args |-> Some(a), result |-> None]

ParseCall ==
    /\ pc = "parse"
    /\ pc' = "parsed"
    /\ LET a == Val(op.args) IN
       op' = [op EXCEPT !.result =
                 Some(_parse_llm_response(a.response, a.role, a.document_ids))]
    /\ UNCHANGED <<job, row, summaries, sections, contexts, frame, now, runs,
                   outcome, calls, succeeded,
                   _summary_service, threads>>

ParserNext == ParseCall

ParserSpec == ParserInit /\ [][ParserNext]_vars

---------------------------------------------------------------------------
(* The two entries to generate_summary: the generate endpoint (views.py)   *)
(* and the generate_test_summary command.  Each behaviour serves one       *)
(* request.  No SummaryJob exists before it: status "none" stands for the  *)
(* absent object and the absent row.                                       *)

NoJob == [NewJob(0, 0) EXCEPT !.status = "none"]

NoRow == [NewRow EXCEPT !.status = "none"]

\* request bodies: a number of document ids, each id_len characters long, a
\* role, and max_length given or left out
Requests ==
    [n_docs : {0, 1, MaxDocuments + 1},
     id_len : {0, ShortIdLen},
     role : {"finance", "janitor"},
     max_length : {None, Some(MinLength - 1), Some(MinLength),
                   Some(MaxLength), Some(MaxLength + 1)}]

\* command lines argparse accepts: --documents takes one or more strings
\* (the empty string too), --role one of the choices
CommandLines ==
    [n_docs : {1, MaxDocuments + 1},
     id_len : {0, ShortIdLen},
     role : {"finance"},
     max_length : {None}]

\* the serializer without the range of max_length
is_valid_any_length(request) ==
    /\ request.n_docs >= 1
    /\ request.id_len \in 1..MaxIdLen
    /\ request.role \in Roles

\* SummaryRequestSerializer(data=request.data).is_valid()
is_valid(request) ==
    /\ request.n_docs >= 1
    /\ request.id_len \in 1..MaxIdLen
    /\ request.role \in Roles
    /\ request.max_length # None =>
          Val(request.max_length) \in MinLength..MaxLength

\* the job either entry creates from the request
CreatedJob(request) ==
    [NewJob(request.n_docs, request.id_len) EXCEPT
        !.stakeholder_role = request.role,
        !.max_length = IF request.max_length = None THEN DefaultMaxLength
                       ELSE Val(request.max_length)]

ApiInit ==
    /\ job = NoJob
    /\ row = NoRow
    /\ summaries = <<>>
    /\ sections = <<>>
    /\ contexts = <<>>
    /\ pc = "api"
    /\ frame = Frame0
    /\ now = 1
    /\ runs = 0
    /\ outcome = NoOutcome
    /\ calls = <<>>
    /\ succeeded = FALSE
    /\ _summary_service = None
    /\ threads = NoThreads
    /\ op = NoOp

\* SummaryViewSet.generate up to the call of the service (lines 79-94)
generate ==
    /\ pc = "api"
    /\ op = NoOp
    /\ \E request \in Requests, created \in BOOLEAN :
         LET o == [name |-> "generate", args |-> Some(request), result |-> None]
         IN  IF ~is_valid(request)
             THEN \* is_valid(raise_exception=True): ValidationError, HTTP 400
                  /\ op' = [o EXCEPT !.result = Some(400)]
                  /\ pc' = "responded"
                  /\ UNCHANGED <<job, row>>
             ELSE IF ~created
             THEN \* SummaryJob.objects.create raises outside the try block
                  /\ op' = [o EXCEPT !.result = Some(500)]
                  /\ pc' = "responded"
                  /\ UNCHANGED <<job, row>>
             ELSE /\ op' = o
                  /\ pc' = "service"
                  /\ job' = CreatedJob(request)
                  /\ row' = NewRow
    /\ UNCHANGED <<summaries, sections, contexts, frame, now, runs, outcome,
                   calls, succeeded,
                   _summary_service, threads>>

\* Command.handle up to the call of the service (lines 38-57)
handle ==
    /\ pc = "api"
    /\ op = NoOp
    /\ \E line \in CommandLines, created \in BOOLEAN :
         LET o == [name |-> "handle", args |-> Some(line), result |-> None]
         IN  IF ~created
             THEN /\ op' = [o EXCEPT !.result = Some(1)]
                  /\ pc' = "responded"
                  /\ UNCHANGED <<job, row>>
             ELSE /\ op' = o
                  /\ pc' = "service"
                  /\ job' = CreatedJob(line)
                  /\ row' = NewRow
    /\ UNCHANGED <<summaries, sections, contexts, frame, now, runs, outcome,
                   calls, succeeded,
                   _summary_service, threads>>

\* service = get_summary_service(); summary = service.generate_summary(job)
CallService ==
    /\ pc = "service"
    /\ EnterGenerateSummary

\* what the entry answers once generate_summary has returned or raised
Respond ==
    /\ pc = "idle"
    /\ op.name \in {"generate", "handle"}
    /\ op.result = None
    /\ outcome.kind # "none"
    /\ pc' = "responded"
    /\ op' = [op EXCEPT !.result =
                 IF op.name = "handle" THEN Some(0)
                 ELSE IF outcome.kind = "returned" THEN Some(201)
                 ELSE Some(500)]
    /\ UNCHANGED <<job, row, summaries, sections, contexts, frame, now, runs,
                   outcome, calls, succeeded,
                   _summary_service, threads>>

ApiNext ==
    \/ generate
    \/ handle
    \/ CallService
    \/ _fetch_document_contexts
    \/ _generate_with_langchain
    \/ SinglePass
    \/ MapChunk
    \/ Reduce
    \/ CreateSummary
    \/ CreateSection
    \/ CompleteJob
    \/ HandleException
    \/ Respond

ApiSpec == ApiInit /\ [][ApiNext]_vars

---------------------------------------------------------------------------
(* The methods of SummaryJob called directly, as the model tests do: up to *)
(* MaxCalls calls of mark_processing, mark_completed and mark_failed, in   *)
(* any order, on one job; each save may raise.  The job's summary may be   *)
(* created directly too, and the result endpoint read at any moment.       *)

ModelArgs == {None, Some(""), Some(ModelName)}

TokenArgs == {None} \cup {Some(t) : t \in 0..MaxTokens}

TimeArgs == {None, Some(0), Some(1)}

Messages == {"", "Test error"}

JobInit ==
    /\ job = NewJob(1, ShortIdLen)
    /\ row = NewRow
    /\ summaries = <<>>
    /\ sections = <<>>
    /\ contexts = <<>>
    /\ pc = "job"
    /\ frame = Frame0
    /\ now = 1
    /\ runs = 0
    /\ outcome = NoOutcome
    /\ calls = <<>>
    /\ succeeded = FALSE
    /\ _summary_service = None
    /\ threads = NoThreads
    /\ op = NoOp

\* job.mark_processing()
CallMarkProcessing ==
    /\ runs < MaxCalls
    /\ runs' = runs + 1
    /\ job' = mark_processing(job)
    /\ \E saved \in BOOLEAN :
         /\ row' = IF saved THEN SaveStatus(row, job') ELSE row
         /\ op' = [name |-> "mark_processing", args |-> None,
                   result |-> Some([saved |-> saved])]
    /\ UNCHANGED <<summaries, sections, contexts, pc, frame, now, outcome,
                   calls, succeeded,
                   _summary_service, threads>>

\* job.mark_completed(model_used=m, tokens_used=t, processing_time=p)
CallMarkCompleted ==
    /\ runs < MaxCalls
    /\ runs' = runs + 1
    /\ now' = now + 1
    /\ \E m \in ModelArgs, t \in TokenArgs, p \in TimeArgs, saved \in BOOLEAN :
         /\ job' = mark_completed(job, m, t, p, now)
         /\ row' = IF saved THEN SaveAll(row, job') ELSE row
         /\ op' = [name |-> "mark_completed",
                   args |-> Some([model_used |-> m, tokens_used |-> t,
                                  processing_time |-> p]),
                   result |-> Some([saved |-> saved])]
    /\ UNCHANGED <<summaries, sections, contexts, pc, frame, outcome, calls,
                   succeeded,
                   _summary_service, threads>>

\* job.mark_failed(error_message)
CallMarkFailed ==
    /\ runs < MaxCalls
    /\ runs' = runs + 1
    /\ now' = now + 1
    /\ \E msg \in Messages, saved \in BOOLEAN :
         /\ job' = mark_failed(job, msg, now)
         /\ row' = IF saved THEN SaveAll(row, job') ELSE row
         /\ op' = [name |-> "mark_failed",
                   args |-> Some([error_message |-> msg]),
                   result |-> Some([saved |-> saved])]
    /\ UNCHANGED <<summaries, sections, contexts, pc, frame, outcome, calls,
                   succeeded,
                   _summary_service, threads>>

\* GeneratedSummary.objects.create(id=f"sum_{job.id}", job=job, ...)
CallCreateSummary ==
    /\ runs < MaxCalls
    /\ runs' = runs + 1
    /\ LET r == InsertSummary(summaries,
                    [id |-> SummaryId(job), job |-> job.id,
                     full_summary |-> ShortSummary])
       IN  /\ summaries' = IF r.ok THEN Val(r.data) ELSE summaries
           /\ op' = [name |-> "create_summary", args |-> None,
                     result |-> Some([saved |-> r.ok])]
    /\ UNCHANGED <<job, row, sections, contexts, pc, frame, now, outcome,
                   calls, succeeded,
                   _summary_service, threads>>

Answer(code, status, error, summary_id) ==
    [code |-> code, status |-> status, error |-> error,
     summary_id |-> summary_id]

\* a result view that serves the summary whenever one is stored
result_any_status(r, tbl, jobId) ==
    IF \E k \in 1..Len(tbl) : tbl[k].job = jobId
    THEN LET k == CHOOSE k \in 1..Len(tbl) : tbl[k].job = jobId
         IN  Answer(200, "completed", None, Some(tbl[k].id))
    ELSE Answer(404, "error", None, None)

\* SummaryViewSet.result: the answer for the stored job r, given the
\* generated_summaries table
result(r, tbl, jobId) ==
    CASE r.status = "pending" -> Answer(202, "pending", None, None)
      [] r.status = "processing" -> Answer(202, "processing", None, None)
      [] r.status = "failed" -> Answer(500, "failed", r.error_message, None)
      [] OTHER ->
           IF \E k \in 1..Len(tbl) : tbl[k].job = jobId
           THEN LET k == CHOOSE k \in 1..Len(tbl) : tbl[k].job = jobId
                IN  Answer(200, "completed", None, Some(tbl[k].id))
           ELSE Answer(404, "error", None, None)

\* GET /api/summaries/{id}/result/
CallResult ==
    /\ op.name # "result"
    /\ op' = [name |-> "result", args |-> None,
              result |-> Some(result(row, summaries, job.id))]
    /\ UNCHANGED <<job, row, summaries, sections, contexts, pc, frame, now,
                   runs, outcome, calls, succeeded,
                   _summary_service, threads>>

JobNext ==
    \/ CallMarkProcessing
    \/ CallMarkCompleted
    \/ CallMarkFailed
    \/ CallCreateSummary
    \/ CallResult

JobSpec == JobInit /\ [][JobNext]_vars

---------------------------------------------------------------------------
(* The pure functions called on their own: _combine_document_texts on any  *)
(* list of contexts (repeated documents, any order), estimate_tokens on    *)
(* texts of every length up to MaxTextLen, merge_summaries on lists of     *)
(* summaries given by their number of words.                               *)

\* the sequences over S of length at most n
SeqsUpTo(S, n) == UNION {[1..k -> S] : k \in 0..n}

\* the length divided by 4 and rounded to the nearest token
estimate_tokens_rounded(len) == (len + 2) \div CharsPerToken

\* estimate_tokens(text), of a text of `len` characters
estimate_tokens(len) == len \div CharsPerToken

RECURSIVE SumWords(_)
SumWords(ss) == IF ss = <<>> THEN 0 ELSE Head(ss) + SumWords(Tail(ss))

\* merge_summaries(summaries, max_length): how many words the merged text
\* holds and whether "..." was appended
merge_summaries(summaries_, max_length) ==
    IF Len(summaries_) = 0 THEN [words |-> 0, ellipsis |-> FALSE]
    ELSE IF Len(summaries_) = 1
    THEN [words |-> summaries_[1], ellipsis |-> FALSE]
    ELSE IF SumWords(summaries_) <= max_length
    THEN [words |-> SumWords(summaries_), ellipsis |-> FALSE]
    ELSE [words |-> max_length, ellipsis |-> TRUE]

CombineInputs ==
    [contexts : SeqsUpTo(1..MaxContexts, MaxContexts), id_len : {ShortIdLen}]

EstimateInputs == [len : 0..MaxTextLen]

MergeInputs ==
    [summaries : SeqsUpTo({0, 2, LongWords}, 3), max_length : 0..MaxWords]

FunInit ==
    /\ job = NewJob(0, ShortIdLen)
    /\ row = NewRow
    /\ summaries = <<>>
    /\ sections = <<>>
    /\ contexts = <<>>
    /\ pc = "call"
    /\ frame = Frame0
    /\ now = 1
    /\ runs = 0
    /\ outcome = NoOutcome
    /\ calls = <<>>
    /\ succeeded = FALSE
    /\ _summary_service = None
    /\ threads = NoThreads
    /\ \/ \E a \in CombineInputs :
            op = [name |-> "_combine_document_texts", args |-> Some(a),
                  result |-> None]
       \/ \E a \in EstimateInputs :
            op = [name |-> "estimate_tokens", args |-> Some(a), result |-> None]
       \/ \E a \in MergeInputs :
            op = [name |-> "merge_summaries", args |-> Some(a), result |-> None]

CallCombine ==
    /\ pc = "call"
    /\ op.name = "_combine_document_texts"
    /\ pc' = "returned"
    /\ op' = [op EXCEPT !.result =
                 Some(_combine_document_texts(Val(op.args).contexts,
                                              Val(op.args).id_len))]
    /\ UNCHANGED <<job, row, summaries, sections, contexts, frame, now, runs,
                   outcome, calls, succeeded,
                   _summary_service, threads>>

CallEstimateTokens ==
    /\ pc = "call"
    /\ op.name = "estimate_tokens"
    /\ pc' = "returned"
    /\ op' = [op EXCEPT !.result = Some(estimate_tokens(Val(op.args).len))]
    /\ UNCHANGED <<job, row, summaries, sections, contexts, frame, now, runs,
                   outcome, calls, succeeded,
                   _summary_service, threads>>

CallMergeSummaries ==
    /\ pc = "call"
    /\ op.name = "merge_summaries"
    /\ pc' = "returned"
    /\ op' = [op EXCEPT !.result =
                 Some(merge_summaries(Val(op.args).summaries,
                                      Val(op.args).max_length))]
    /\ UNCHANGED <<job, row, summaries, sections, contexts, frame, now, runs,
                   outcome, calls, succeeded,
                   _summary_service, threads>>

FunNext ==
    \/ CallCombine
    \/ CallEstimateTokens
    \/ CallMergeSummaries

FunSpec == FunInit /\ [][FunNext]_vars

----------------------------------------------------------------------------
(* get_summary_service called from NumThreads request threads at once.     *)
(* The function reads the global, constructs, stores and reads again, with *)
(* no lock: a thread can be suspended between any two of these steps.      *)

SingletonInit ==
    /\ job = NoJob
    /\ row = NoRow
    /\ summaries = <<>>
    /\ sections = <<>>
    /\ contexts = <<>>
    /\ pc = "threads"
    /\ frame = Frame0
    /\ now = 1
    /\ runs = 0
    /\ outcome = NoOutcome
    /\ calls = <<>>
    /\ succeeded = FALSE
    /\ op = NoOp
    /\ _summary_service = None
    /\ threads = NoThreads

\* thread t moves to position p
Goto(t, p) == [threads EXCEPT ![t].pc = p]

\* line 431: if _summary_service is None
TestGlobal(t) ==
    /\ pc = "threads"
    /\ threads[t].pc = "out"
    /\ threads' = Goto(t, IF _summary_service = None
                          THEN "construct" ELSE "return")
    /\ UNCHANGED <<job, row, summaries, sections, contexts, pc, frame, now,
                   runs, outcome, calls, succeeded, op, _summary_service>>

\* line 432, right-hand side: SummaryGenerationService(), a new instance
\* (named after the thread that constructs it)
Construct(t) ==
    /\ pc = "threads"
    /\ threads[t].pc = "construct"
    /\ threads' = [threads EXCEPT ![t].pc = "store", ![t].made = Some(t)]
    /\ UNCHANGED <<job, row, summaries, sections, contexts, pc, frame, now,
                   runs, outcome, calls, succeeded, op, _summary_service>>

\* line 432, the assignment to the global
StoreGlobal(t) ==
    /\ pc = "threads"
    /\ threads[t].pc = "store"
    /\ _summary_service' = threads[t].made
    /\ threads' = Goto(t, "return")
    /\ UNCHANGED <<job, row, summaries, sections, contexts, pc, frame, now,
                   runs, outcome, calls, succeeded, op>>

\* line 433: return _summary_service
ReturnGlobal(t) ==
    /\ pc = "threads"
    /\ threads[t].pc = "return"
    /\ threads' = [threads EXCEPT ![t].pc = "done",
                                  ![t].got = _summary_service]
    /\ UNCHANGED <<job, row, summaries, sections, contexts, pc, frame, now,
                   runs, outcome, calls, succeeded, op, _summary_service>>

get_summary_service(t) ==
    \/ TestGlobal(t)
    \/ Construct(t)
    \/ StoreGlobal(t)
    \/ ReturnGlobal(t)

SingletonNext == \E t \in Threads : get_summary_service(t)

SingletonSpec == SingletonInit /\ [][SingletonNext]_vars

---------------------------------------------------------------------------
(* Properties *)

SummariesOf(j) == {k \in 1..Len(summaries) : summaries[k].job = j.id}

RECURSIVE UsageSum(_)
UsageSum(cs) ==
    IF cs = <<>> THEN 0
    ELSE (IF Head(cs).usage = None THEN 0 ELSE Val(Head(cs).usage))
         + UsageSum(Tail(cs))

\* _generate_with_langchain has returned in the current call
GenerateReturned == frame.summary_data # None

IsSummaryObject(r) ==
    r.kind = "object" /\ r.has_sections /\ r.has_full_summary

\* C1: the job's status only moves pending -> processing -> completed or
\* failed, and no call changes a status that is completed or failed.
C1_StatusMonotonic ==
    [][/\ job.status = "pending" => job'.status \in {"pending", "processing"}
       /\ job.status = "processing" =>
              job'.status \in {"processing", "completed", "failed"}
       /\ job.status \in {"completed", "failed"} => job'.status = job.status
      ]_vars

\* C2: the parser's fallback never raises: a response that is not a JSON
\* object with both keys never sends generate_summary to its except clause
\* from the parser.
C2_FallbackNeverRaises ==
    (frame.response # None /\ IsFallbackInput(Val(frame.response)))
        => ~(pc = "except" /\ Val(frame.exc).at = "parse")

\* C3: a job whose status is failed has no GeneratedSummary row and no
\* SummarySection row.
C3_NoPartialResult ==
    job.status = "failed" => summaries = <<>> /\ sections = <<>>

\* C4: a job holds at most one GeneratedSummary, and exactly one once a
\* generate_summary call on it has returned normally.
C4_AtMostOneSummary ==
    /\ Cardinality(SummariesOf(job)) <= 1
    /\ succeeded => Cardinality(SummariesOf(job)) = 1

\* a repeated call on a job that already holds its summary was turned down by
\* the insert
C4_Witness ==
    /\ succeeded
    /\ runs > 1
    /\ outcome.kind = "raised"
    /\ Val(outcome.caught).type = "IntegrityError"
    /\ Val(outcome.caught).msg = "duplicate key"

\* C5: when a step of generate_summary raises e, the job ends failed with
\* error_message str(e) and the caller receives e itself.
C5_FailureRecordedAndReraised ==
    outcome.kind = "raised" =>
        /\ job.status = "failed"
        /\ job.error_message = Some(Val(outcome.caught).msg)
        /\ outcome.exc = outcome.caught

\* C6: a call on a fresh pending job in which nothing raises leaves the job
\* completed, with exactly one GeneratedSummary and completed_at later than
\* created_at, the status having gone through processing.
C6_SuccessPath ==
    (outcome.kind = "returned" /\ outcome.fresh) =>
        /\ job.status = "completed"
        /\ row.status = "completed"
        /\ Cardinality(SummariesOf(job)) = 1
        /\ job.completed_at # None
        /\ Val(job.completed_at) > job.created_at
        /\ outcome.statuses = <<"processing", "completed">>

C6_Witness ==
    /\ outcome.kind = "returned"
    /\ outcome.fresh
    /\ outcome.n_calls > 1

\* C7: a call on a fresh pending job whose context fetch or model invocation
\* raises leaves the job failed with a non-empty error_message and no
\* GeneratedSummary.
C7_FetchOrInvokeFailure ==
    (/\ outcome.kind = "raised"
     /\ outcome.fresh
     /\ Val(outcome.caught).at \in {"fetch", "invoke"}) =>
        /\ job.status = "failed"
        /\ job.error_message # None
        /\ Val(job.error_message) # ""
        /\ summaries = <<>>

\* C8: with N > 1 chunks, _generate_with_langchain returns after exactly
\* N + 1 model invocations (N map calls, then 1 reduce call) with tokens_used
\* the sum of the usage of all of them.
C8_MapReduceCalls ==
    (GenerateReturned /\ Len(frame.chunks) > 1) =>
        /\ Len(calls) = Len(frame.chunks) + 1
        /\ \A k \in 1..Len(frame.chunks) : calls[k].phase = "map"
        /\ calls[Len(calls)].phase = "reduce"
        /\ frame.tokens_used = UsageSum(calls)

C8_Witness ==
    /\ pc = "create_summary"
    /\ Len(frame.chunks) = 3
    /\ \A k \in 1..Len(calls) : calls[k].usage = Some(MaxTokens)

\* C9: with exactly one chunk, one model invocation is made and
\* _generate_with_langchain returns that call's usage as tokens_used, whether
\* the response was a JSON object with both keys or went to the fallback.
C9_SingleCall ==
    (/\ Len(frame.chunks) = 1
     /\ frame.response # None
     /\ (IsSummaryObject(Val(frame.response))
            \/ IsFallbackInput(Val(frame.response)))) =>
        /\ Len(calls) = 1
        /\ GenerateReturned
        /\ frame.tokens_used = Val(calls[1].usage)

C11_MapThenReduce ==
    \A k \in 1..Len(calls) :
        /\ calls[k].phase = "map" =>
              /\ k <= Len(frame.chunks)
              /\ calls[k].chunk = k
              /\ calls[k].content_len = frame.chunks[k].len
              /\ \A i \in 1..(k - 1) : calls[i].phase = "map" /\ calls[i].returned
        /\ calls[k].phase = "reduce" =>
              /\ k = Len(frame.chunks) + 1
              /\ \A i \in 1..(k - 1) : calls[i].phase = "map" /\ calls[i].returned
              /\ calls[k].parts = [i \in 1..(k - 1) |-> calls[i].full_summary]
              /\ calls[k].content_len =
                     SumLens(calls[k].parts) + (k - 2) * JoinLen

\* a reduce invocation over chunk summaries that differ from one another
C11_Witness ==
    \E k \in 1..Len(calls) :
        /\ calls[k].phase = "reduce"
        /\ Len(calls[k].parts) = 3
        /\ calls[k].parts[1] # calls[k].parts[3]
        /\ calls[k].parts[1] = calls[k].parts[2]

ParsedInput == Val(op.args)

ParsedResult == Val(op.result)

\* C12: for a response that decodes as a JSON object with both keys,
\* _parse_llm_response returns that object: the model's sections (titles,
\* contents, key points, evidence ids) and full_summary as given, with no
\* profile section put in their place.
C12_ObjectReturnedAsIs ==
    (pc = "parsed" /\ IsSummaryObject(ParsedInput.response)) =>
        /\ ParsedResult.ok
        /\ Val(ParsedResult.data).is_dict
        /\ Val(ParsedResult.data).sections = ParsedInput.response.sections
        /\ Val(ParsedResult.data).full_summary = ParsedInput.response.full_summary

\* an object whose sections carry a title the finance profile also has, with
\* other content than the fallback's, has been parsed
C12_Witness ==
    /\ pc = "parsed"
    /\ ParsedInput.role = "finance"
    /\ ParsedInput.response \in RichResponses
    /\ Len(ParsedInput.response.sections) = 2
    /\ ParsedResult.ok

\* C13: for a response that is not valid JSON, _parse_llm_response returns
\* one section per title of the profile, in the profile's order, each with a
\* content naming the section, two key points and the first min(2, n) of
\* the n document ids as evidence_ids.
C13_FallbackSections ==
    (pc = "parsed" /\ ParsedInput.response.kind \in {"text", "empty"}) =>
        /\ ParsedResult.ok
        /\ LET titles == STAKEHOLDER_PROMPTS(ParsedInput.role)
               secs == Val(ParsedResult.data).sections
               n == Len(ParsedInput.document_ids)
           IN  /\ Len(secs) = Len(titles)
               /\ \A i \in 1..Len(titles) :
                    /\ secs[i].title = Some(titles[i])
                    /\ Len(secs[i].key_points) = 2
                    /\ secs[i].evidence_ids =
                          [k \in 1..Min(2, n) |-> ParsedInput.document_ids[k]]

\* C14: on the fallback path full_summary is the response cut to the limit
\* (5 * max_length, or 2500 characters without a job at hand); a shorter
\* response is kept whole.
C14_FallbackTruncation ==
    (pc = "parsed" /\ IsFallbackInput(ParsedInput.response)) =>
        /\ ParsedResult.ok
        /\ Val(ParsedResult.data).full_summary # None
        /\ Val(Val(ParsedResult.data).full_summary) <= DefaultCut
        /\ RawLen(ParsedInput.response) <= DefaultCut =>
              Val(Val(ParsedResult.data).full_summary) =
                  RawLen(ParsedInput.response)

Request == Val(op.args)

\* C15: a generate request with no document id, an unknown role or a
\* max_length outside 100..2000 is answered 400 and nothing else happens:
\* no SummaryJob exists, in memory or stored, generate_summary is not
\* entered and the model is never invoked.
C15_ValidationRejects ==
    (/\ op.name = "generate"
     /\ \/ Request.n_docs = 0
        \/ Request.role \notin Roles
        \/ /\ Request.max_length # None
           /\ Val(Request.max_length) \notin MinLength..MaxLength) =>
        /\ op.result = Some(400)
        /\ pc = "responded"
        /\ job = NoJob
        /\ row = NoRow
        /\ runs = 0
        /\ calls = <<>>
        /\ outcome = NoOutcome

\* a request wrong only in max_length being one above the range was answered
C15_Witness ==
    /\ op.name = "generate"
    /\ Request.n_docs = 1
    /\ Request.id_len = ShortIdLen
    /\ Request.role = "finance"
    /\ Request.max_length = Some(MaxLength + 1)
    /\ op.result = Some(400)

\* C16: from either entry, a document id list longer than 50 or holding an
\* empty string never yields a job in status processing.
C16_OversizedRejected ==
    (/\ op.name \in {"generate", "handle"}
     /\ \/ Request.n_docs > MaxDocuments
        \/ Request.n_docs > 0 /\ Request.id_len = 0) =>
        /\ job.status # "processing"
        /\ row.status # "processing"

Args == Val(op.args)

Saved == Val(op.result).saved

\* C17: after mark_completed(model_used=m, tokens_used=t, processing_time=p)
\* the job is completed and holds m, t and p, whatever values were passed.
C17_CompletedFields ==
    op.name = "mark_completed" =>
        /\ job.status = "completed"
        /\ Args.model_used # None => job.model_used = Args.model_used
        /\ Args.tokens_used # None => job.tokens_used = Args.tokens_used
        /\ Args.processing_time # None =>
              job.processing_time = Args.processing_time

\* C18: right after mark_completed or mark_failed the job holds a
\* completion timestamp (stored with the row when the save went through),
\* and after mark_failed(msg) its error_message is msg.
C18_TerminalStamp ==
    op.name \in {"mark_completed", "mark_failed"} =>
        /\ job.completed_at # None
        /\ Val(job.completed_at) = now - 1
        /\ Saved => row.completed_at = job.completed_at
        /\ op.name = "mark_failed" =>
              /\ job.status = "failed"
              /\ job.error_message = Some(Args.error_message)
              /\ Saved => row.error_message = Some(Args.error_message)

\* mark_failed("") was the first call on a pending job, and was saved
C18_Witness ==
    /\ op.name = "mark_failed"
    /\ runs = 1
    /\ Args.error_message = ""
    /\ Saved

\* C19: nothing is retried: an invocation that raises is the last one of
\* its run and sends the run to the except clause, the job ending failed;
\* no chunk is mapped twice and a run holds at most one reduce invocation.
C19_NoRetry ==
    /\ \A k \in 1..Len(calls) :
         calls[k].usage = None => k = Len(calls) /\ pc = "except"
    /\ \A k \in 1..Len(calls) : \A i \in 1..Len(calls) :
         (i # k /\ calls[i].phase = calls[k].phase) =>
            (calls[k].phase = "map" /\ calls[i].chunk # calls[k].chunk)
    /\ (outcome.kind # "none" /\ outcome.caught # None
           /\ Val(outcome.caught).at = "invoke") =>
         /\ outcome.kind = "raised"
         /\ job.status = "failed"

\* the map call of the second of three chunks raised: the run ended there
C19_Witness ==
    /\ outcome.kind = "raised"
    /\ Val(outcome.caught).at = "invoke"
    /\ outcome.n_calls = 2
    /\ Len(job.document_ids) = ManyDocs

\* C20: the sections stored for a completed job are those of the parsed
\* result of the final model call (the single call, or the reduce call), in
\* that order: the i-th of them is stored i-th with order i - 1.
C20_SectionsInOrder ==
    /\ pc \in {"create_summary", "create_sections"} =>
         /\ calls[Len(calls)].phase \in {"single", "reduce"}
         /\ Val(frame.summary_data).sections = calls[Len(calls)].sections
    /\ (outcome.kind = "returned" /\ job.status = "completed") =>
         /\ Len(sections) = Len(outcome.sections)
         /\ \A i \in 1..Len(sections) :
              /\ sections[i].summary = SummaryId(job)
              /\ sections[i].title = Val(outcome.sections[i].title)
              /\ sections[i].order = i - 1

\* a map-reduce run returned whose final result has its sections in an
\* order that is not the alphabetical one
C20_Witness ==
    /\ outcome.kind = "returned"
    /\ outcome.n_calls > 1
    /\ Len(sections) = 2
    /\ sections[1].title = "B"
    /\ sections[2].title = "A"

Returned(name) == pc = "returned" /\ op.name = name

\* C21: _combine_document_texts emits one block per context, in the order
\* the contexts were given: the k-th block is headed by and holds the k-th
\* context's document; none is left out, repeated or moved.
C21_CombineKeepsOrder ==
    Returned("_combine_document_texts") =>
        LET given == Val(op.args).contexts
            out == Val(op.result)
        IN  /\ Len(out.docs) = Len(given)
            /\ \A k \in 1..Len(given) : out.docs[k] = given[k]
            /\ out.len = Len(given) * BlockLen(Val(op.args).id_len)
                           + (IF Len(given) = 0 THEN 0
                              ELSE (Len(given) - 1) * JoinLen)

\* three contexts were combined, the first document given again as the third
C21_Witness ==
    /\ Returned("_combine_document_texts")
    /\ Val(op.args).contexts = <<2, 1, 2>>
    /\ Val(op.result).docs = <<2, 1, 2>>

\* C26: estimate_tokens returns the text length divided by 4, rounded down:
\* never negative, and never more than for a longer text.
C26_EstimateTokens ==
    Returned("estimate_tokens") =>
        LET n == Val(op.args).len
            e == Val(op.result)
        IN  /\ e \in Nat
            /\ CharsPerToken * e <= n
            /\ n < CharsPerToken * (e + 1)
            /\ \A shorter \in 0..n : estimate_tokens(shorter) <= e

\* the estimate of a text one character short of three tokens
C26_Witness ==
    /\ Returned("estimate_tokens")
    /\ Val(op.args).len = 3 * CharsPerToken - 1
    /\ Val(op.result) = 2

\* C27: the text merge_summaries returns holds at most max_length words
\* (the ellipsis aside), also when the list holds one summary.
C27_MergeWithinLimit ==
    Returned("merge_summaries") =>
        Val(op.result).words <= Val(op.args).max_length

\* C22: once the context fetch of a run has succeeded, the job holds one
\* DocumentContext per entry of document_ids, in that order and attached to
\* it, and no other: its context count is len(document_ids), also after the
\* run.
C22_OneContextPerDocument ==
    (\/ pc \in {"single", "map", "create_summary", "create_sections"}
     \/ pc = "idle" /\ outcome.kind = "returned") =>
        /\ Len(contexts) = Len(job.document_ids)
        /\ \A k \in 1..Len(contexts) :
             /\ contexts[k].job = job.id
             /\ contexts[k].document_id = job.document_ids[k]

\* C23: a combined text of at most 4000 characters is split into exactly
\* one chunk, equal to the text, and the single-pass path is taken with the
\* whole text.
C23_SmallTextOneChunk ==
    (pc \in {"single", "map"} /\ frame.combined.len <= ChunkSize) =>
        /\ pc = "single"
        /\ Len(frame.chunks) = 1
        /\ frame.chunks[1].len = frame.combined.len

StoredSummary == \E k \in 1..Len(summaries) : summaries[k].job = job.id

\* C24: the result endpoint answers 202 for a stored job that is pending
\* or processing, 500 with its error_message for a failed one, and for a
\* completed one 200 with its summary if one is stored and 404 if none is;
\* a summary is never served for a job that is not completed.
C24_ResultByStatus ==
    op.name = "result" =>
        LET answer == Val(op.result) IN
        /\ row.status \in {"pending", "processing"} =>
              answer.code = 202 /\ answer.status = row.status
        /\ row.status = "failed" =>
              answer.code = 500 /\ answer.error = row.error_message
        /\ (row.status = "completed" /\ StoredSummary) =>
              answer.code = 200 /\ answer.summary_id = Some(SummaryId(job))
        /\ (row.status = "completed" /\ ~StoredSummary) => answer.code = 404
        /\ answer.summary_id # None => row.status = "completed"

\* the result of a failed job was asked for while a summary of it is stored
C24_Witness ==
    /\ op.name = "result"
    /\ row.status = "failed"
    /\ StoredSummary
    /\ Val(op.result).code = 500

\* the body of the generate endpoint's answer (views.py lines 102-115); an
\* exception outside its try block is answered by the framework, with no
\* job id
GenerateBody ==
    IF job = NoJob
    THEN [job_id |-> None, status |-> "error", error |-> None]
    ELSE IF outcome.kind = "returned"
    THEN [job_id |-> Some(job.id), status |-> "completed", error |-> None]
    ELSE [job_id |-> Some(job.id), status |-> "failed",
          error |-> Some(Val(outcome.exc).msg)]

\* C25: every valid generate request creates one SummaryJob and calls
\* generate_summary once on it; the answer is 201 'completed' when the call
\* returns and 500 'failed' with the exception's message when it raises,
\* and carries the job's id either way.
C25_GenerateAnswer ==
    (op.name = "generate" /\ is_valid(Request)) =>
        /\ job # NoJob
        /\ row # NoRow
        /\ op.result # None =>
              /\ runs = 1
              /\ outcome.kind \in {"returned", "raised"}
              /\ outcome.kind = "returned" =>
                    op.result = Some(201) /\ GenerateBody.status = "completed"
              /\ outcome.kind = "raised" =>
                    /\ op.result = Some(500)
                    /\ GenerateBody.status = "failed"
                    /\ GenerateBody.error = Some(Val(outcome.exc).msg)
              /\ GenerateBody.job_id = Some(job.id)

\* C29: in every state reached through mark_processing, mark_completed,
\* mark_failed and generate_summary, the job's completed_at is set exactly
\* when its status is completed or failed, and its error_message is set
\* only when its status is failed.
C29_TerminalFields ==
    /\ (job.completed_at # None) <=> (job.status \in {"completed", "failed"})
    /\ (job.error_message # None) => (job.status = "failed")

\* C28: a generate_summary run on a fresh pending job ends, after finitely
\* many model invocations, with the job completed or failed: once the run
\* has started, control returns to the caller, and whenever it has returned
\* the job's status is neither pending nor processing.
C28_RunTerminates ==
    /\ [](runs = 1 /\ pc = "idle" =>
            /\ outcome.kind \in {"returned", "raised"}
            /\ job.status \in {"completed", "failed"}
            /\ outcome.n_calls <= Len(split_text(Len(job.document_ids),
                                                 job.id_len)) + 1)
    /\ (runs = 1 /\ pc # "idle") ~>
            (pc = "idle" /\ job.status \in {"completed", "failed"})

\* a run that went through the map calls and the reduce call has returned
C28_Witness ==
    /\ runs = 1
    /\ pc = "idle"
    /\ outcome.kind = "returned"
    /\ outcome.n_calls > 2
    /\ job.status = "completed"

\* the instances constructed so far
Constructed == {t \in Threads : threads[t].made # None}

\* C30: get_summary_service constructs at most one SummaryGenerationService
\* and every caller is returned that one instance, also when the first
\* calls come from several request threads at once.
C30_OneInstance ==
    /\ Cardinality(Constructed) <= 1
    /\ \A t, u \in Threads :
          (threads[t].got # None /\ threads[u].got # None) =>
              threads[t].got = threads[u].got

====
